---- MODULE Spec2Model ----
(***************************************************************************)
(* Model of the task-management workflow's scheduling step, createSchedule *)
(* (src/src/mastra/workflows/task-management-workflow.ts), followed by its *)
(* analyzeTasks step, the documented retry and circuit-breaker patterns    *)
(* (src/docs/workflow-examples-guide.md) and the financial-analysis        *)
(* workflow (src/unnamed/part_000), each with a specification of its own.  *)
(*                                                                         *)
(* Hours are counted in units of 1/UnitsPerHour hour, so that fractional   *)
(* durations are exact.  A Date is the UTC day number of its instant (the  *)
(* start date parses to UTC midnight and addDays keeps the time of day);   *)
(* day 0 is a Sunday.  getDay() reads the LOCAL calendar day, which is the *)
(* UTC day plus tzShift (-1 west of Greenwich, 0 otherwise);               *)
(* toISOString() reads the UTC day.  setDate() keeps the local time of     *)
(* day, so when the zone's clocks go forward (local day dstDay, 0 = never) *)
(* the instant falls one hour back, onto the UTC day before.               *)
(***************************************************************************)
EXTENDS Integers, Sequences, FiniteSets, TLC

\* ---------------------------------------------------------------- bounds
MaxTasks == 3
MaxDur == 3
MaxCap == 3
MaxStart == 6

UnitsPerHour == 2
MinDur == 0
MaxNegCap == 1
MaxDstDay == 2
PairMaxTasks == 2
PairMaxDur == 2
MaxAnalyzed == 2
MaxDeadlineDays == 16
MaxOverdueDays == 1
MaxSameDeadline == 2
MaxTicks == 8
MaxPending == 2
MaxValue == 3
MaxLateTicks == 2
MaxRows == 2
MaxSpend == 2
MaxIncome == 1

\* Every run that leaves the loop has done so before the date passes Horizon
\* (HorizonExact below); past it a date is kept up to its weekday only.
Horizon == MaxStart + 3 * MaxTasks + 3

Durations == MinDur..MaxDur
Caps == (0 - MaxNegCap)..MaxCap
StartDates == 0..MaxStart
TzShifts == {-1, 0}
DstDays == 0..MaxDstDay

\* z.array(taskSchema.extend({aiPriority, reasoning})): ids are unique within
\* a batch, and the list arrives sorted by non-increasing aiPriority.
TaskLists ==
  UNION { { [i \in 1..n |-> [id |-> i, estimatedHours |-> d[i], aiPriority |-> 10 - i]]
            : d \in [1..n -> Durations] } : n \in 0..MaxTasks }

\* Weekdays as getDay() numbers them.
Monday == 1
Friday == 5

Hours(h) == h * UnitsPerHour

\* The documented sample run, in ranked order: task1 4h, task3 6h, task4 1h,
\* task2 2h, task5 3h with priorities 9, 8, 7, 5, 3.
SampleTasks ==
  << [id |-> 1, estimatedHours |-> Hours(4), aiPriority |-> 9],
     [id |-> 3, estimatedHours |-> Hours(6), aiPriority |-> 8],
     [id |-> 4, estimatedHours |-> Hours(1), aiPriority |-> 7],
     [id |-> 2, estimatedHours |-> Hours(2), aiPriority |-> 5],
     [id |-> 5, estimatedHours |-> Hours(3), aiPriority |-> 3] >>

\* Three tasks of 4h, 2h and 6h.
ThreeTasks ==
  << [id |-> 1, estimatedHours |-> Hours(4), aiPriority |-> 9],
     [id |-> 2, estimatedHours |-> Hours(2), aiPriority |-> 8],
     [id |-> 3, estimatedHours |-> Hours(6), aiPriority |-> 7] >>

\* Five tasks of 2h each.
FiveTasks ==
  [i \in 1..5 |-> [id |-> i, estimatedHours |-> Hours(2), aiPriority |-> 10 - i]]

\* The task list and the capacity of a call: the bounded lists with every
\* capacity, and the three example batches with the default 8h day.
InputPairs ==
  (TaskLists \X Caps) \cup ({SampleTasks, ThreeTasks, FiveTasks} \X {Hours(8)})

\* What the agent may stream back, chunk by chunk.
Texts == { <<>>, <<" ", "a">>, <<"a", " ">>, <<"b">> }

VARIABLES
  tasks, workingHoursPerDay, startDate, excludeWeekends, tzShift, dstDay,
  pc, schedule, currentDate, currentDayHours, currentDayTasks,
  taskIndex, totalScheduledHours, result, error,
  other,
  inputTasks, responseTexts, prioritizedTasks, apc,
  failures, lastFailureTime, state, now, pending, thrown,
  attempt, lastError, waits, timerDue, invocations, returned, rpc,
  csvData, analysisData, budget, report, fpc, ferror

vars == <<tasks, workingHoursPerDay, startDate, excludeWeekends, tzShift, dstDay,
          pc, schedule, currentDate, currentDayHours, currentDayTasks,
          taskIndex, totalScheduledHours, result, error, other,
          inputTasks, responseTexts, prioritizedTasks, apc,
          failures, lastFailureTime, state, now, pending, thrown,
          attempt, lastError, waits, timerDue, invocations, returned, rpc,
          csvData, analysisData, budget, report, fpc, ferror>>

\* The state of the financial-analysis workflow.
finance == <<csvData, analysisData, budget, report, fpc, ferror>>

\* The state of the documented error-handling patterns: the fields of the
\* CircuitBreaker, the locals of retryableStep, and the clock and the error
\* thrown of either.
breaker == <<failures, lastFailureTime, state, pending>>
retrying == <<attempt, lastError, waits, timerDue, invocations, returned, rpc>>
patterns == <<breaker, retrying, now, thrown>>

\* The state of the analyzeTasks step.
analysis == <<inputTasks, responseTexts, prioritizedTasks, apc>>

inputs == <<tasks, workingHoursPerDay, startDate, excludeWeekends>>

\* The time zone of the process.
env == <<tzShift, dstDay>>

\* ---------------------------------------------------------------- helpers
NoResult ==
  [dailySchedule |-> <<>>, suggestions |-> <<>>, summary |-> <<>>, returned |-> FALSE]

\* suggestions.trim()
RECURSIVE trim(_)
trim(text) ==
  IF text = <<>> THEN text
  ELSE IF Head(text) = " " THEN trim(Tail(text))
  ELSE IF text[Len(text)] = " " THEN trim(SubSeq(text, 1, Len(text) - 1))
  ELSE text

\* A JavaScript number that is the quotient of two integers.
Num(a, b) == [kind |-> "num", num |-> a, den |-> b]
NaN == [kind |-> "nan", num |-> 0, den |-> 0]
Infinity == [kind |-> "inf", num |-> 0, den |-> 0]

\* a / b on JavaScript numbers: 0/0 is NaN, x/0 is +-Infinity.
JsDiv(a, b) ==
  IF b = 0 THEN (IF a = 0 THEN NaN ELSE Infinity) ELSE Num(a, b)

\* new Date(startDate): UTC midnight of the day, read in local time.
parseDate(day) == [utc |-> day, local |-> day + tzShift]

\* addDays(date, days): setDate(getDate() + days) moves the local calendar
\* day and keeps the local time of day.
addDays(date, days) ==
  LET l == date.local + days
      lag == IF dstDay > 0 /\ date.local < dstDay /\ l >= dstDay THEN 1 ELSE 0
      u == date.utc + days - lag
  IN IF u > Horizon + 7 THEN [utc |-> u - 7, local |-> l - 7]
                        ELSE [utc |-> u, local |-> l]

\* date.getDay(): weekday of the local calendar day, 0 = Sunday.
getDay(date) == date.local % 7

isWeekend(date) == getDay(date) = 0 \/ getDay(date) = 6

\* date.toISOString().split("T")[0]: the UTC calendar day.
toISODate(date) == date.utc

DigitChars == <<"0", "1", "2", "3", "4", "5", "6", "7", "8", "9">>

RECURSIVE toString(_)
toString(n) ==
  IF n < 10 THEN <<DigitChars[n + 1]>>
  ELSE toString(n \div 10) \o <<DigitChars[(n % 10) + 1]>>

\* s.padStart(2, "0")
padStart2(s) == IF Len(s) < 2 THEN <<"0">> \o s ELSE s

\* The time of day counted from midnight, without the 9 o'clock start.
formatTimeFromMidnight(hours) ==
  LET h == hours \div UnitsPerHour
      m == (2 * (hours % UnitsPerHour) * 60 + UnitsPerHour) \div (2 * UnitsPerHour)
  IN padStart2(toString(h)) \o <<":">> \o padStart2(toString(m))

\* formatTime(hours): h = floor(9 + hours), m = round((hours % 1) * 60).
formatTime(hours) ==
  LET h == 9 + (hours \div UnitsPerHour)
      m == (2 * (hours % UnitsPerHour) * 60 + UnitsPerHour) \div (2 * UnitsPerHour)
  IN padStart2(toString(h)) \o <<":">> \o padStart2(toString(m))

\* The entry pushed on schedule at a flush.
Day(date, dayTasks, hours) ==
  [date |-> toISODate(date), tasks |-> dayTasks, totalHours |-> hours]

\* The fit check with the task's own duration left out.
FitsCurrentOnly(task) == currentDayHours <= workingHoursPerDay

\* The fit check that leaves a day short of its capacity.
FitsStrictly(task) == currentDayHours + task.estimatedHours < workingHoursPerDay

\* The fit check of the loop.
Fits(task) == currentDayHours + task.estimatedHours <= workingHoursPerDay

\* The entry put in front of the day's tasks.
unshiftTask(dayTasks, entry) == <<entry>> \o dayTasks

\* currentDayTasks.push(entry)
pushTask(dayTasks, entry) == Append(dayTasks, entry)

\* A second call of createSchedule in the same process, suspended while this
\* one runs: its inputs and its own locals.  NoOther: there is none.
NoOther ==
  [tasks |-> <<>>, workingHoursPerDay |-> 0, startDate |-> 0,
   excludeWeekends |-> FALSE, pc |-> "absent", schedule |-> <<>>,
   currentDate |-> [utc |-> 0, local |-> 0], currentDayHours |-> 0,
   currentDayTasks |-> <<>>, taskIndex |-> 0, totalScheduledHours |-> 0,
   result |-> NoResult, error |-> "none"]

\* A call that has not started yet.
NewCall(ts, cap, start, excl) ==
  [tasks |-> ts, workingHoursPerDay |-> cap, startDate |-> start,
   excludeWeekends |-> excl, pc |-> "start", schedule |-> <<>>,
   currentDate |-> parseDate(start), currentDayHours |-> 0,
   currentDayTasks |-> <<>>, taskIndex |-> 0, totalScheduledHours |-> 0,
   result |-> NoResult, error |-> "none"]

\* The running call, as a record.
Context ==
  [tasks |-> tasks, workingHoursPerDay |-> workingHoursPerDay,
   startDate |-> startDate, excludeWeekends |-> excludeWeekends, pc |-> pc,
   schedule |-> schedule, currentDate |-> currentDate,
   currentDayHours |-> currentDayHours, currentDayTasks |-> currentDayTasks,
   taskIndex |-> taskIndex, totalScheduledHours |-> totalScheduledHours,
   result |-> result, error |-> error]

\* A CircuitBreaker as constructed, with none of its calls made.
NewBreaker ==
  /\ failures = 0
  /\ lastFailureTime = 0
  /\ state = "closed"
  /\ now = 0
  /\ pending = 0
  /\ thrown = "none"

\* What the steps of the financial workflow have not produced yet.
NoAnalysisData ==
  [totalSpending |-> 0, categoryBreakdown |-> <<>>, topMerchants |-> <<>>,
   monthlyTrend |-> <<>>, returned |-> FALSE]
NoBudget == [monthlyBudget |-> <<>>, returned |-> FALSE]
NoReport ==
  [htmlReport |-> <<>>, topCategory |-> "", months |-> 0, merchants |-> 0,
   returned |-> FALSE]

\* The financial workflow is not running.
NoFinance ==
  /\ csvData = [amountColumn |-> FALSE, rows |-> <<>>]
  /\ analysisData = NoAnalysisData
  /\ budget = NoBudget
  /\ report = NoReport
  /\ fpc = "absent"
  /\ ferror = "none"

\* retryableStep is not running.
NoRetry ==
  /\ attempt = 0
  /\ lastError = "none"
  /\ waits = <<>>
  /\ timerDue = 0
  /\ invocations = 0
  /\ returned = 0
  /\ rpc = "absent"

\* analyzeTasks is not running.
NoAnalysis ==
  /\ inputTasks = <<>>
  /\ responseTexts = <<>>
  /\ prioritizedTasks = <<>>
  /\ apc = "absent"

\* ---------------------------------------------------------------- Init
Init ==
  /\ \E pair \in InputPairs : tasks = pair[1] /\ workingHoursPerDay = pair[2]
  /\ startDate \in StartDates
  /\ excludeWeekends \in BOOLEAN
  /\ tzShift \in TzShifts
  /\ dstDay \in DstDays
  /\ pc = "start"
  /\ schedule = <<>>
  /\ currentDate = parseDate(startDate)
  /\ currentDayHours = 0
  /\ currentDayTasks = <<>>
  /\ taskIndex = 0
  /\ totalScheduledHours = 0
  /\ result = NoResult
  /\ error = "none"
  /\ other = NoOther
  /\ NoAnalysis
  /\ NewBreaker
  /\ NoRetry
  /\ NoFinance

\* ---------------------------------------------------------------- actions
\* mastra?.getAgent("weatherAgent") is undefined: throw "Agent not found".
AgentMissing ==
  /\ pc = "start"
  /\ pc' = "failed"
  /\ error' = "Agent not found"
  /\ UNCHANGED <<finance, patterns, analysis, env, other, inputs, schedule, currentDate, currentDayHours,
                 currentDayTasks, taskIndex, totalScheduledHours, result>>

\* The running total kept outside the call: it goes on from the other call's.
BeginSharedTotal ==
  /\ pc = "start"
  /\ pc' = "loop"
  /\ schedule' = <<>>
  /\ currentDate' = parseDate(startDate)
  /\ currentDayHours' = 0
  /\ currentDayTasks' = <<>>
  /\ taskIndex' = 0
  /\ totalScheduledHours' = other.totalScheduledHours
  /\ UNCHANGED <<finance, patterns, analysis, env, other, inputs, result, error>>

\* The agent is there: the accumulators are initialised and the loop entered.
Begin ==
  /\ pc = "start"
  /\ pc' = "loop"
  /\ schedule' = <<>>
  /\ currentDate' = parseDate(startDate)
  /\ currentDayHours' = 0
  /\ currentDayTasks' = <<>>
  /\ taskIndex' = 0
  /\ totalScheduledHours' = 0
  /\ UNCHANGED <<finance, patterns, analysis, env, other, inputs, result, error>>

\* Loop iteration, weekend branch: flush a non-empty accumulator, advance.
WeekendSkip ==
  /\ pc = "loop"
  /\ taskIndex < Len(tasks)
  /\ excludeWeekends /\ isWeekend(currentDate)
  /\ IF Len(currentDayTasks) > 0
       THEN /\ schedule' = Append(schedule, Day(currentDate, currentDayTasks, currentDayHours))
            /\ currentDayTasks' = <<>>
            /\ currentDayHours' = 0
       ELSE UNCHANGED <<schedule, currentDayTasks, currentDayHours>>
  /\ currentDate' = addDays(currentDate, 1)
  /\ UNCHANGED <<finance, patterns, analysis, env, other, inputs, pc, taskIndex, totalScheduledHours, result, error>>

\* Loop iteration, the task fits in the current day.
PlaceTask ==
  /\ pc = "loop"
  /\ taskIndex < Len(tasks)
  /\ ~(excludeWeekends /\ isWeekend(currentDate))
  /\ LET task == tasks[taskIndex + 1]
     IN /\ Fits(task)
        /\ currentDayTasks' = pushTask(currentDayTasks,
             [taskId |-> task.id,
              startTime |-> formatTime(currentDayHours),
              endTime |-> formatTime(currentDayHours + task.estimatedHours),
              notes |-> task.aiPriority])
        /\ currentDayHours' = currentDayHours + task.estimatedHours
        /\ totalScheduledHours' = totalScheduledHours + task.estimatedHours
        /\ taskIndex' = taskIndex + 1
  /\ UNCHANGED <<finance, patterns, analysis, env, other, inputs, pc, schedule, currentDate, result, error>>

\* The next day is begun with the tasks of the day before still held.
NextDayKeepsTasks ==
  /\ pc = "loop"
  /\ taskIndex < Len(tasks)
  /\ ~(excludeWeekends /\ isWeekend(currentDate))
  /\ ~Fits(tasks[taskIndex + 1])
  /\ schedule' = IF Len(currentDayTasks) > 0
                   THEN Append(schedule, Day(currentDate, currentDayTasks, currentDayHours))
                   ELSE schedule
  /\ currentDate' = addDays(currentDate, 1)
  /\ currentDayHours' = 0
  /\ UNCHANGED <<finance, patterns, analysis, env, other, inputs, pc, currentDayTasks, taskIndex,
                 totalScheduledHours, result, error>>

\* The next day is begun with the hours of the day before still counted.
NextDayKeepsHours ==
  /\ pc = "loop"
  /\ taskIndex < Len(tasks)
  /\ ~(excludeWeekends /\ isWeekend(currentDate))
  /\ ~Fits(tasks[taskIndex + 1])
  /\ schedule' = IF Len(currentDayTasks) > 0
                   THEN Append(schedule, Day(currentDate, currentDayTasks, currentDayHours))
                   ELSE schedule
  /\ currentDate' = addDays(currentDate, 1)
  /\ currentDayTasks' = <<>>
  /\ UNCHANGED <<finance, patterns, analysis, env, other, inputs, pc, currentDayHours, taskIndex,
                 totalScheduledHours, result, error>>

\* Loop iteration, the task does not fit: flush a non-empty day, next day.
NextDay ==
  /\ pc = "loop"
  /\ taskIndex < Len(tasks)
  /\ ~(excludeWeekends /\ isWeekend(currentDate))
  /\ ~Fits(tasks[taskIndex + 1])
  /\ schedule' = IF Len(currentDayTasks) > 0
                   THEN Append(schedule, Day(currentDate, currentDayTasks, currentDayHours))
                   ELSE schedule
  /\ currentDate' = addDays(currentDate, 1)
  /\ currentDayHours' = 0
  /\ currentDayTasks' = <<>>
  /\ UNCHANGED <<finance, patterns, analysis, env, other, inputs, pc, taskIndex, totalScheduledHours, result, error>>

\* The loop is left and the last day is lost.
FinalFlushDropsDay ==
  /\ pc = "loop"
  /\ ~(taskIndex < Len(tasks))
  /\ pc' = "stream"
  /\ UNCHANGED <<finance, patterns, analysis, env, other, inputs, schedule, currentDate, currentDayHours, currentDayTasks,
                 taskIndex, totalScheduledHours, result, error>>

\* The loop is left and the accumulator is pushed even when it is empty.
FinalFlushAlways ==
  /\ pc = "loop"
  /\ ~(taskIndex < Len(tasks))
  /\ schedule' = Append(schedule, Day(currentDate, currentDayTasks, currentDayHours))
  /\ pc' = "stream"
  /\ UNCHANGED <<finance, patterns, analysis, env, other, inputs, currentDate, currentDayHours, currentDayTasks,
                 taskIndex, totalScheduledHours, result, error>>

\* The loop is left: the last day is flushed and the agent is called.
FinalFlush ==
  /\ pc = "loop"
  /\ ~(taskIndex < Len(tasks))
  /\ schedule' = IF Len(currentDayTasks) > 0
                   THEN Append(schedule, Day(currentDate, currentDayTasks, currentDayHours))
                   ELSE schedule
  /\ pc' = "stream"
  /\ UNCHANGED <<finance, patterns, analysis, env, other, inputs, currentDate, currentDayHours, currentDayTasks,
                 taskIndex, totalScheduledHours, result, error>>

\* The summary with the hours of the last day in place of the running total.
SummaryLastDayHours ==
  [totalTasks |-> Len(tasks),
   totalHours |-> currentDayHours,
   totalDays |-> Len(schedule),
   averageHoursPerDay |-> JsDiv(currentDayHours, Len(schedule))]

\* The summary object built after the stream.
Summary ==
  [totalTasks |-> Len(tasks),
   totalHours |-> totalScheduledHours,
   totalDays |-> Len(schedule),
   averageHoursPerDay |-> JsDiv(totalScheduledHours, Len(schedule))]

\* The stream fails and the catch block hands back what was computed.
StreamFailsPartial ==
  /\ pc = "stream"
  /\ pc' = "done"
  /\ error' = "stream failed"
  /\ result' = [dailySchedule |-> schedule, suggestions |-> <<>>,
                summary |-> <<>>, returned |-> TRUE]
  /\ UNCHANGED <<finance, patterns, analysis, env, other, inputs, schedule, currentDate, currentDayHours,
                 currentDayTasks, taskIndex, totalScheduledHours>>

\* The returned schedule is emptied when the agent says nothing.
ReturnUsesText ==
  /\ pc = "stream"
  /\ \E text \in Texts :
       result' = [dailySchedule |-> IF trim(text) = <<>> THEN <<>> ELSE schedule,
                  suggestions |-> trim(text),
                  summary |-> Summary, returned |-> TRUE]
  /\ pc' = "done"
  /\ UNCHANGED <<finance, patterns, analysis, env, other, inputs, schedule, currentDate, currentDayHours,
                 currentDayTasks, taskIndex, totalScheduledHours, error>>

\* agent.stream(...) and the text stream complete: the result is returned.
Return ==
  /\ pc = "stream"
  /\ \E text \in Texts :
       result' = [dailySchedule |-> schedule, suggestions |-> trim(text),
                  summary |-> Summary, returned |-> TRUE]
  /\ pc' = "done"
  /\ UNCHANGED <<finance, patterns, analysis, env, other, inputs, schedule, currentDate, currentDayHours,
                 currentDayTasks, taskIndex, totalScheduledHours, error>>

\* agent.stream(...) or the text stream rejects: the catch block rethrows.
StreamFails ==
  /\ pc = "stream"
  /\ pc' = "failed"
  /\ error' = "stream failed"
  /\ UNCHANGED <<finance, patterns, analysis, env, other, inputs, schedule, currentDate, currentDayHours,
                 currentDayTasks, taskIndex, totalScheduledHours, result>>

Next ==
  \/ AgentMissing
  \/ Begin
  \/ WeekendSkip
  \/ PlaceTask
  \/ NextDay
  \/ FinalFlush
  \/ Return
  \/ StreamFails

Spec == Init /\ [][Next]_vars

\* The loop and the calls that follow it run to completion once started.
FairSpec == Spec /\ WF_vars(Next)

\* ------------------------------------------------- two calls in one process
\* The calls of the two-call specification: short lists that always fit a
\* day, starting on a Friday or a Saturday.
PairLists ==
  UNION { { [i \in 1..n |-> [id |-> i, estimatedHours |-> d[i], aiPriority |-> 10 - i]]
            : d \in [1..n -> 1..PairMaxDur] } : n \in 0..PairMaxTasks }

PairCalls ==
  { NewCall(ts, PairMaxDur, start, excl) :
      ts \in PairLists, start \in {Friday, Friday + 1}, excl \in BOOLEAN }

PairInit ==
  /\ tzShift \in TzShifts
  /\ dstDay = 0
  /\ \E c \in PairCalls :
       /\ tasks = c.tasks
       /\ workingHoursPerDay = c.workingHoursPerDay
       /\ startDate = c.startDate
       /\ excludeWeekends = c.excludeWeekends
       /\ pc = c.pc
       /\ schedule = c.schedule
       /\ currentDate = c.currentDate
       /\ currentDayHours = c.currentDayHours
       /\ currentDayTasks = c.currentDayTasks
       /\ taskIndex = c.taskIndex
       /\ totalScheduledHours = c.totalScheduledHours
       /\ result = c.result
       /\ error = c.error
  /\ other \in PairCalls
  /\ NoAnalysis
  /\ NewBreaker
  /\ NoRetry
  /\ NoFinance

\* The running call is not started, awaits the agent's stream or has ended:
\* the event loop runs the other call.
Switch ==
  /\ pc \in {"start", "stream", "done", "failed"}
  /\ other.pc # "absent"
  /\ other' = Context
  /\ tasks' = other.tasks
  /\ workingHoursPerDay' = other.workingHoursPerDay
  /\ startDate' = other.startDate
  /\ excludeWeekends' = other.excludeWeekends
  /\ pc' = other.pc
  /\ schedule' = other.schedule
  /\ currentDate' = other.currentDate
  /\ currentDayHours' = other.currentDayHours
  /\ currentDayTasks' = other.currentDayTasks
  /\ taskIndex' = other.taskIndex
  /\ totalScheduledHours' = other.totalScheduledHours
  /\ result' = other.result
  /\ error' = other.error
  /\ UNCHANGED <<finance, patterns, analysis, env>>

PairNext ==
  \/ AgentMissing
  \/ Begin
  \/ WeekendSkip
  \/ PlaceTask
  \/ NextDay
  \/ FinalFlush
  \/ Return
  \/ StreamFails
  \/ Switch

PairSpec == PairInit /\ [][PairNext]_vars

\* ------------------------------------------------------------ analyzeTasks
\* taskSchema.priority, "none" when the field is left out.
Priorities == {"none", "low", "medium", "high", "urgent"}

\* taskSchema.deadline, as the days from now to the deadline (rounded up),
\* or left out.
NoDeadline == [set |-> FALSE, days |-> 0]
DueIn(d) == [set |-> TRUE, days |-> d]
Deadlines == {NoDeadline, DueIn(1), DueIn(8)}

\* inputData.tasks of analyzeTasks.
RawTaskLists ==
  UNION { { [i \in 1..n |-> [id |-> i, priority |-> pr[i], deadline |-> dl[i]]]
            : pr \in [1..n -> Priorities], dl \in [1..n -> Deadlines] }
          : n \in 0..MaxAnalyzed }

\* What the agent streams back for a task: text that JSON.parse rejects, or
\* an object whose priority is left out, is a number, or is text that is no
\* number.
Unparseable == [kind |-> "unparseable", n |-> 0]
ParsedResponses ==
  { [kind |-> "missing", n |-> 0], [kind |-> "text", n |-> 0] }
    \cup { [kind |-> "number", n |-> v] : v \in {0 - 1, 0, 7, 12} }

Min(a, b) == IF a <= b THEN a ELSE b
Max(a, b) == IF a >= b THEN a ELSE b

\* parsed.priority || 5
orFive(r) ==
  IF r.kind = "missing" \/ (r.kind = "number" /\ r.n = 0) THEN Num(5, 1)
  ELSE IF r.kind = "number" THEN Num(r.n, 1)
  ELSE NaN

\* Math.min(10, x) alone.
clampAbove(x) == IF x.kind = "nan" THEN NaN ELSE Num(Min(10, x.num), 1)

\* Math.max(1, Math.min(10, x)): NaN stays NaN.
clamp(x) == IF x.kind = "nan" THEN NaN ELSE Num(Max(1, Min(10, x.num)), 1)

\* The rule-based default: 9, 7, 5, 3 by declared priority, 5 with none.
basePriority(task) ==
  CASE task.priority = "urgent" -> 9
    [] task.priority = "high" -> 7
    [] task.priority = "medium" -> 5
    [] task.priority = "low" -> 3
    [] OTHER -> 5

\* The default raised only by a deadline strictly inside each limit.
defaultPriorityStrict(task) ==
  LET base == basePriority(task)
  IN IF ~task.deadline.set THEN base
     ELSE IF task.deadline.days < 1 THEN Min(10, base + 3)
     ELSE IF task.deadline.days < 7 THEN Min(10, base + 2)
     ELSE IF task.deadline.days < 14 THEN Min(10, base + 1)
     ELSE base

\* The default raised by the deadline, capped at 10.
defaultPriority(task) ==
  LET base == basePriority(task)
  IN IF ~task.deadline.set THEN base
     ELSE IF task.deadline.days <= 1 THEN Min(10, base + 3)
     ELSE IF task.deadline.days <= 7 THEN Min(10, base + 2)
     ELSE IF task.deadline.days <= 14 THEN Min(10, base + 1)
     ELSE base

\* {...task, aiPriority, reasoning}
Prioritized(task, p, why) ==
  [id |-> task.id, priority |-> task.priority, deadline |-> task.deadline,
   aiPriority |-> p, reasoning |-> why]

\* The comparator of the sort, b.aiPriority - a.aiPriority, is > 0: a goes
\* after b.  A NaN difference counts as 0.
After(a, b) ==
  a.aiPriority.kind = "num" /\ b.aiPriority.kind = "num"
    /\ b.aiPriority.num - a.aiPriority.num > 0

\* Array.prototype.sort with a consistent comparator: stable.
RECURSIVE insertSorted(_, _)
insertSorted(sorted, x) ==
  IF sorted = <<>> THEN <<x>>
  ELSE IF After(sorted[Len(sorted)], x)
         THEN Append(insertSorted(SubSeq(sorted, 1, Len(sorted) - 1), x),
                     sorted[Len(sorted)])
         ELSE Append(sorted, x)

RECURSIVE stableSort(_)
stableSort(list) ==
  IF list = <<>> THEN <<>>
  ELSE insertSorted(stableSort(SubSeq(list, 1, Len(list) - 1)), list[Len(list)])

\* The orders sort may leave the list in.  With a NaN priority the comparator
\* is not consistent and the order is implementation-defined.
SortedOrders(list) ==
  IF \E i \in 1..Len(list) : list[i].aiPriority.kind = "nan"
    THEN { [i \in 1..Len(list) |-> list[f[i]]] :
             f \in { g \in [1..Len(list) -> 1..Len(list)] :
                       \A i, j \in 1..Len(list) : i # j => g[i] # g[j] } }
    ELSE { stableSort(list) }

\* The createSchedule step is not running.
NoSchedule ==
  /\ tasks = <<>>
  /\ workingHoursPerDay = 0
  /\ startDate = 0
  /\ excludeWeekends = FALSE
  /\ tzShift = 0
  /\ dstDay = 0
  /\ pc = "absent"
  /\ schedule = <<>>
  /\ currentDate = [utc |-> 0, local |-> 0]
  /\ currentDayHours = 0
  /\ currentDayTasks = <<>>
  /\ taskIndex = 0
  /\ totalScheduledHours = 0
  /\ result = NoResult
  /\ error = "none"
  /\ other = NoOther

scheduling == <<tasks, workingHoursPerDay, startDate, excludeWeekends, tzShift,
                dstDay, pc, schedule, currentDate, currentDayHours,
                currentDayTasks, taskIndex, totalScheduledHours, result, error,
                other>>

AnalyzeInit ==
  /\ NoSchedule
  /\ NewBreaker
  /\ NoRetry
  /\ NoFinance
  /\ inputTasks \in RawTaskLists
  /\ responseTexts = <<>>
  /\ prioritizedTasks = <<>>
  /\ apc = "start"

\* mastra?.getAgent("weatherAgent") is undefined: the step throws.
AnalyzeAgentMissing ==
  /\ apc = "start"
  /\ apc' = "failed"
  /\ UNCHANGED <<finance, patterns, scheduling, inputTasks, responseTexts, prioritizedTasks>>

\* The agent is there: the loop over the tasks is entered.
AnalyzeBegin ==
  /\ apc = "start"
  /\ apc' = "loop"
  /\ prioritizedTasks' = <<>>
  /\ UNCHANGED <<finance, patterns, scheduling, inputTasks, responseTexts>>

\* One task: the agent's text parses, the priority is clamped.  responseTexts
\* keeps the text read in each pass of the loop.
AnalyzeParsed ==
  /\ apc = "loop"
  /\ Len(responseTexts) < Len(inputTasks)
  /\ \E r \in ParsedResponses :
       /\ responseTexts' = Append(responseTexts, r)
       /\ prioritizedTasks' = Append(prioritizedTasks,
            Prioritized(inputTasks[Len(responseTexts) + 1], clamp(orFive(r)), "ai"))
  /\ UNCHANGED <<finance, patterns, scheduling, inputTasks, apc>>

\* One task: the fallback forgets to keep the task.
AnalyzeFallbackDrops ==
  /\ apc = "loop"
  /\ Len(responseTexts) < Len(inputTasks)
  /\ responseTexts' = Append(responseTexts, Unparseable)
  /\ UNCHANGED <<finance, patterns, scheduling, inputTasks, prioritizedTasks, apc>>

\* One task: JSON.parse throws, the rule-based priority is used.
AnalyzeFallback ==
  /\ apc = "loop"
  /\ Len(responseTexts) < Len(inputTasks)
  /\ responseTexts' = Append(responseTexts, Unparseable)
  /\ prioritizedTasks' = Append(prioritizedTasks,
       LET task == inputTasks[Len(responseTexts) + 1]
       IN Prioritized(task, Num(defaultPriority(task), 1), "rule"))
  /\ UNCHANGED <<finance, patterns, scheduling, inputTasks, apc>>

\* One task: agent.stream or its text stream rejects, the step rethrows.
AnalyzeStreamFails ==
  /\ apc = "loop"
  /\ Len(responseTexts) < Len(inputTasks)
  /\ apc' = "failed"
  /\ UNCHANGED <<finance, patterns, scheduling, inputTasks, responseTexts, prioritizedTasks>>

\* After the loop: sort by priority and return.
AnalyzeReturn ==
  /\ apc = "loop"
  /\ ~(Len(responseTexts) < Len(inputTasks))
  /\ prioritizedTasks' \in SortedOrders(prioritizedTasks)
  /\ apc' = "done"
  /\ UNCHANGED <<finance, patterns, scheduling, inputTasks, responseTexts>>

AnalyzeNext ==
  \/ AnalyzeAgentMissing
  \/ AnalyzeBegin
  \/ AnalyzeParsed
  \/ AnalyzeFallback
  \/ AnalyzeStreamFails
  \/ AnalyzeReturn

AnalyzeSpec == AnalyzeInit /\ [][AnalyzeNext]_vars

\* --------------------------------------------- the rule-based fallback
\* Deadlines from overdue to past the last limit of the rules, or none.
FallbackDeadlines ==
  {NoDeadline} \cup { DueIn(d) : d \in (0 - MaxOverdueDays)..MaxDeadlineDays }

\* Lists of tasks that share their deadline and differ in declared priority.
FallbackTaskLists ==
  UNION { { [i \in 1..n |-> [id |-> i, priority |-> pr[i], deadline |-> dl]]
            : pr \in [1..n -> Priorities], dl \in FallbackDeadlines }
          : n \in 1..MaxSameDeadline }

FallbackInit ==
  /\ NoSchedule
  /\ NewBreaker
  /\ NoRetry
  /\ NoFinance
  /\ inputTasks \in FallbackTaskLists
  /\ responseTexts = <<>>
  /\ prioritizedTasks = <<>>
  /\ apc = "start"

FallbackSpec == FallbackInit /\ [][AnalyzeNext]_vars

\* ------------------------------------------------- the CircuitBreaker
\* private readonly threshold, timeout (milliseconds).
threshold == 5
timeout == 60000

\* The clock of the model advances in steps of TickMs milliseconds.
TickMs == 30000

\* The failure count trips the breaker only above the threshold.
trippedAbove(count) == count > threshold

\* onFailure: this.failures >= this.threshold
tripped(count) == count >= threshold

\* Date.now() - this.lastFailureTime > this.timeout
timedOut == now - lastFailureTime > timeout

BreakerInit ==
  /\ NoSchedule
  /\ NoAnalysis
  /\ NewBreaker
  /\ NoRetry
  /\ NoFinance

\* Time passes.
BreakerTick ==
  /\ now < MaxTicks * TickMs
  /\ now' = now + TickMs
  /\ UNCHANGED <<finance, scheduling, analysis, retrying, failures, lastFailureTime, state, pending, thrown>>

\* execute while open and not timed out: throws without calling operation.
BreakerReject ==
  /\ state = "open"
  /\ ~timedOut
  /\ thrown' = "Circuit breaker is open"
  /\ UNCHANGED <<finance, scheduling, analysis, retrying, failures, lastFailureTime, state, now, pending>>

\* execute otherwise: an open breaker turns half-open, operation() is called
\* and awaited.
BreakerInvoke ==
  /\ state = "open" => timedOut
  /\ pending < MaxPending
  /\ state' = IF state = "open" THEN "half-open" ELSE state
  /\ pending' = pending + 1
  /\ UNCHANGED <<finance, scheduling, analysis, retrying, failures, lastFailureTime, now, thrown>>

\* An awaited operation resolves: onSuccess, the result is returned.
BreakerSuccess ==
  /\ pending > 0
  /\ pending' = pending - 1
  /\ failures' = 0
  /\ state' = "closed"
  /\ thrown' = "none"
  /\ UNCHANGED <<finance, scheduling, analysis, retrying, lastFailureTime, now>>

\* An awaited operation rejects: onFailure, the error is rethrown.
BreakerFailure ==
  /\ pending > 0
  /\ pending' = pending - 1
  /\ failures' = failures + 1
  /\ lastFailureTime' = now
  /\ state' = IF tripped(failures + 1) THEN "open" ELSE state
  /\ thrown' = "operation failed"
  /\ UNCHANGED <<finance, scheduling, analysis, retrying, now>>

BreakerNext ==
  \/ BreakerTick
  \/ BreakerReject
  \/ BreakerInvoke
  \/ BreakerSuccess
  \/ BreakerFailure

BreakerSpec == BreakerInit /\ [][BreakerNext]_vars

\* ------------------------------------------------------ retryableStep
maxRetries == 3

\* The timers of the model run on a clock of TimerTickMs milliseconds.
TimerTickMs == 1000

\* What unreliableOperation resolves with, and the messages it rejects with.
Values == 1..MaxValue
Messages == {"e1", "e2", "e3"}

RECURSIVE pow2(_)
pow2(n) == IF n = 0 THEN 1 ELSE 2 * pow2(n - 1)

\* Math.pow(2, attempt) * 1000
delay(n) == pow2(n) * 1000

\* attempt < maxRetries - 1: a wait follows every attempt but the last.
waitsAfter(n) == n < maxRetries - 1

RetryInit ==
  /\ NoSchedule
  /\ NoAnalysis
  /\ NewBreaker
  /\ NoFinance
  /\ attempt = 0
  /\ lastError = "none"
  /\ waits = <<>>
  /\ timerDue = 0
  /\ invocations = 0
  /\ returned = 0
  /\ rpc = "loop"

\* unreliableOperation(inputData) resolves: its result is returned.
RetryResolve ==
  /\ rpc = "loop"
  /\ attempt < maxRetries
  /\ invocations' = invocations + 1
  /\ \E v \in Values : returned' = v
  /\ rpc' = "returned"
  /\ UNCHANGED <<finance, scheduling, analysis, breaker, now, thrown, attempt, lastError,
                 waits, timerDue>>

\* unreliableOperation(inputData) rejects: the error is kept and, before any
\* attempt but the last, a timer of the delay is set.
RetryReject ==
  /\ rpc = "loop"
  /\ attempt < maxRetries
  /\ invocations' = invocations + 1
  /\ \E e \in Messages : lastError' = e
  /\ IF waitsAfter(attempt)
       THEN /\ waits' = Append(waits, delay(attempt))
            /\ timerDue' = now + delay(attempt)
            /\ rpc' = "waiting"
            /\ UNCHANGED attempt
       ELSE /\ attempt' = attempt + 1
            /\ UNCHANGED <<waits, timerDue, rpc>>
  /\ UNCHANGED <<finance, scheduling, analysis, breaker, now, thrown, returned>>

\* Time passes while the timer runs; the timer may fire late.
RetryTick ==
  /\ rpc = "waiting"
  /\ now < timerDue + MaxLateTicks * TimerTickMs
  /\ now' = now + TimerTickMs
  /\ UNCHANGED <<finance, scheduling, analysis, breaker, retrying, thrown>>

\* The timer fires: the loop goes on with the next attempt.
RetryWake ==
  /\ rpc = "waiting"
  /\ now >= timerDue
  /\ attempt' = attempt + 1
  /\ rpc' = "loop"
  /\ UNCHANGED <<finance, scheduling, analysis, breaker, now, thrown, lastError, waits,
                 timerDue, invocations, returned>>

\* The loop is left without a result: throw with the last error's message.
RetryThrow ==
  /\ rpc = "loop"
  /\ ~(attempt < maxRetries)
  /\ thrown' = "Operation failed after 3 attempts"
  /\ rpc' = "failed"
  /\ UNCHANGED <<finance, scheduling, analysis, breaker, now, attempt, lastError, waits,
                 timerDue, invocations, returned>>

RetryNext ==
  \/ RetryResolve
  \/ RetryReject
  \/ RetryTick
  \/ RetryWake
  \/ RetryThrow

RetrySpec == RetryInit /\ [][RetryNext]_vars

\* ------------------------------------------ the financial-analysis workflow
\* A cell of the amount column: text with no number in it, or a number.
AmountCells ==
  { [kind |-> "text", n |-> 0] }
    \cup { [kind |-> "number", n |-> v] : v \in (0 - MaxSpend)..MaxIncome }

\* Cells of the category and merchant columns; "" is an empty cell.
Categories == {"", "food", "__proto__"}
Merchants == {"shop", "cafe"}

\* The month keys a date cell leads to, in localeCompare order; an invalid
\* date leads to "NaN-NaN".
MonthKeys == <<"2024-01", "2024-02", "NaN-NaN">>

Row(amount, category, merchant, month) ==
  [amount |-> amount, category |-> category, merchant |-> merchant, month |-> month]

\* The data lines of the CSV, the header line left out.
RowLists ==
  UNION { [1..n -> { Row(a, c, m, k) : a \in AmountCells, c \in Categories,
                                        m \in Merchants,
                                        k \in {MonthKeys[1], MonthKeys[3]} }]
          : n \in 0..MaxRows }

\* Six spending rows of six merchants, in two categories and two months.
SixMerchants ==
  [i \in 1..6 |->
     Row([kind |-> "number", n |-> 0 - i],
         IF i % 2 = 0 THEN "food" ELSE "rent",
         <<"m1", "m2", "m3", "m4", "m5", "m6">>[i],
         MonthKeys[1 + (i % 2)])]

\* Income rows only.
IncomeOnly ==
  [i \in 1..2 |-> Row([kind |-> "number", n |-> i], "salary", "employer", MonthKeys[i])]

Abs(x) == IF x < 0 THEN 0 - x ELSE x

\* isNaN(amount) ? 0 : amount, of parseFloat of the cell.
parseAmount(cell) == IF cell.kind = "text" THEN 0 ELSE cell.n

\* columns[categoryIndex] || default
orDefault(cell, default) == IF cell = "" THEN default ELSE cell

NonZero(t) == t.amount # 0

\* lines.slice(1).map(...).filter((t) => t.amount !== 0)
transactionsOf(rows) ==
  SelectSeq([i \in 1..Len(rows) |->
               [amount |-> parseAmount(rows[i].amount),
                category |-> orDefault(rows[i].category, "unclassified"),
                merchant |-> orDefault(rows[i].merchant, "unknown"),
                month |-> rows[i].month]],
            NonZero)

\* transactions.reduce: the absolute values of the negative amounts.
RECURSIVE totalSpendingOf(_)
totalSpendingOf(ts) ==
  IF ts = <<>> THEN 0
  ELSE totalSpendingOf(SubSeq(ts, 1, Len(ts) - 1))
         + (IF ts[Len(ts)].amount < 0 THEN Abs(ts[Len(ts)].amount) ELSE 0)

\* record[key] = (record[key] || 0) + amount on an object literal, kept as
\* its own entries in insertion order.  The key "__proto__" is inherited:
\* reading it gives Object.prototype and the assignment of the resulting
\* text is ignored, so the record gets no entry.
recordAdd(record, key, amount) ==
  IF key = "__proto__" THEN record
  ELSE IF \E i \in 1..Len(record) : record[i].name = key
    THEN [i \in 1..Len(record) |->
            IF record[i].name = key
              THEN [name |-> key, amount |-> record[i].amount + amount]
              ELSE record[i]]
    ELSE Append(record, [name |-> key, amount |-> amount])

\* The totals of the spending rows by category, merchant or month.
RECURSIVE totalsBy(_, _)
totalsBy(ts, field) ==
  IF ts = <<>> THEN <<>>
  ELSE LET t == ts[Len(ts)]
           before == totalsBy(SubSeq(ts, 1, Len(ts) - 1), field)
       IN IF t.amount < 0 THEN recordAdd(before, t[field], Abs(t.amount))
                          ELSE before

\* entries.sort(([, a], [, b]) => b - a), stable.
RECURSIVE insertByAmount(_, _)
insertByAmount(sorted, x) ==
  IF sorted = <<>> THEN <<x>>
  ELSE IF x.amount > sorted[Len(sorted)].amount
         THEN Append(insertByAmount(SubSeq(sorted, 1, Len(sorted) - 1), x),
                     sorted[Len(sorted)])
         ELSE Append(sorted, x)

RECURSIVE sortByAmount(_)
sortByAmount(entries) ==
  IF entries = <<>> THEN <<>>
  ELSE insertByAmount(sortByAmount(SubSeq(entries, 1, Len(entries) - 1)),
                      entries[Len(entries)])

\* entries.sort(([a], [b]) => a.localeCompare(b)): the keys are distinct.
sortByMonth(entries) ==
  LET present == SelectSeq(MonthKeys,
                   LAMBDA k : \E i \in 1..Len(entries) : entries[i].name = k)
  IN [j \in 1..Len(present) |->
        entries[CHOOSE i \in 1..Len(entries) : entries[i].name = present[j]]]

\* .slice(0, 5)
slice5(entries) == SubSeq(entries, 1, Min(5, Len(entries)))

\* Math.round((amount / Math.max(months, 1)) * 0.8)
budgetFor(amount, months) ==
  (16 * amount + 10 * Max(months, 1)) \div (20 * Max(months, 1))

\* The CSV handed to analyzeTransactions: whether its header has an amount
\* column, and its data lines.
CsvInputs ==
  { [amountColumn |-> h, rows |-> r] :
      h \in BOOLEAN, r \in RowLists \cup {SixMerchants, IncomeOnly} }

FinanceInit ==
  /\ NoSchedule
  /\ NoAnalysis
  /\ NewBreaker
  /\ NoRetry
  /\ csvData \in CsvInputs
  /\ analysisData = NoAnalysisData
  /\ budget = NoBudget
  /\ report = NoReport
  /\ fpc = "analyze"
  /\ ferror = "none"

\* analyzeTransactions: fewer than two non-empty lines.
AnalyzeInsufficient ==
  /\ fpc = "analyze"
  /\ Len(csvData.rows) < 1
  /\ fpc' = "failed"
  /\ ferror' = "Insufficient transaction data"
  /\ UNCHANGED <<scheduling, analysis, patterns, csvData, analysisData, budget, report>>

\* analyzeTransactions: the header has no amount column.
AnalyzeNoAmountColumn ==
  /\ fpc = "analyze"
  /\ ~(Len(csvData.rows) < 1)
  /\ ~csvData.amountColumn
  /\ fpc' = "failed"
  /\ ferror' = "Amount column not found in CSV data"
  /\ UNCHANGED <<scheduling, analysis, patterns, csvData, analysisData, budget, report>>

\* analyzeTransactions: the totals are computed and returned.
AnalyzeTransactions ==
  /\ fpc = "analyze"
  /\ ~(Len(csvData.rows) < 1)
  /\ csvData.amountColumn
  /\ LET transactions == transactionsOf(csvData.rows)
     IN analysisData' =
          [totalSpending |-> totalSpendingOf(transactions),
           categoryBreakdown |-> totalsBy(transactions, "category"),
           topMerchants |-> slice5(sortByAmount(totalsBy(transactions, "merchant"))),
           monthlyTrend |-> sortByMonth(totalsBy(transactions, "month")),
           returned |-> TRUE]
  /\ fpc' = "budget"
  /\ UNCHANGED <<scheduling, analysis, patterns, csvData, budget, report, ferror>>

\* generateBudgetRecommendations: no financialAgent.
BudgetAgentMissing ==
  /\ fpc = "budget"
  /\ fpc' = "failed"
  /\ ferror' = "Financial agent not found"
  /\ UNCHANGED <<scheduling, analysis, patterns, csvData, analysisData, budget, report>>

\* generateBudgetRecommendations: the agent's stream rejects.
BudgetStreamFails ==
  /\ fpc = "budget"
  /\ fpc' = "failed"
  /\ ferror' = "stream failed"
  /\ UNCHANGED <<scheduling, analysis, patterns, csvData, analysisData, budget, report>>

\* generateBudgetRecommendations: 80% of the monthly average per category.
GenerateBudget ==
  /\ fpc = "budget"
  /\ budget' =
       [monthlyBudget |->
          [i \in 1..Len(analysisData.categoryBreakdown) |->
             [name |-> analysisData.categoryBreakdown[i].name,
              amount |-> budgetFor(analysisData.categoryBreakdown[i].amount,
                                   Len(analysisData.monthlyTrend))]],
        returned |-> TRUE]
  /\ fpc' = "report"
  /\ UNCHANGED <<scheduling, analysis, patterns, csvData, analysisData, report, ferror>>

\* generateReport: no category, topCategory is undefined and topCategory[0]
\* throws a TypeError, which the catch block rethrows.
GenerateReportFails ==
  /\ fpc = "report"
  /\ sortByAmount(analysisData.categoryBreakdown) = <<>>
  /\ fpc' = "failed"
  /\ ferror' = "TypeError"
  /\ UNCHANGED <<scheduling, analysis, patterns, csvData, analysisData, budget, report>>

\* generateReport: the report and its summary are returned.
GenerateReport ==
  /\ fpc = "report"
  /\ sortByAmount(analysisData.categoryBreakdown) # <<>>
  /\ report' =
       [htmlReport |-> sortByAmount(analysisData.categoryBreakdown),
        topCategory |-> sortByAmount(analysisData.categoryBreakdown)[1].name,
        months |-> Len(analysisData.monthlyTrend),
        merchants |-> Len(analysisData.topMerchants),
        returned |-> TRUE]
  /\ fpc' = "done"
  /\ UNCHANGED <<scheduling, analysis, patterns, csvData, analysisData, budget, ferror>>

FinanceNext ==
  \/ AnalyzeInsufficient
  \/ AnalyzeNoAmountColumn
  \/ AnalyzeTransactions
  \/ BudgetAgentMissing
  \/ BudgetStreamFails
  \/ GenerateBudget
  \/ GenerateReportFails
  \/ GenerateReport

FinanceSpec == FinanceInit /\ [][FinanceNext]_vars

\* ---------------------------------------------------------------- sanity
TypeOK ==
  /\ pc \in {"start", "loop", "stream", "done", "failed", "absent"}
  /\ apc \in {"start", "loop", "done", "failed", "absent"}
  /\ taskIndex \in 0..Len(tasks)
  /\ currentDate.utc \in 0..(Horizon + 7)

\* No day is emitted with a date the model keeps only up to its weekday.
HorizonExact ==
  /\ \A i \in 1..Len(schedule) : schedule[i].date <= Horizon
  /\ Len(currentDayTasks) > 0 => currentDate.utc <= Horizon

\* ---------------------------------------------------------------- claims
RECURSIVE SumHours(_)
SumHours(days) ==
  IF days = <<>> THEN 0 ELSE days[1].totalHours + SumHours(Tail(days))

RECURSIVE SumDurations(_)
SumDurations(ts) ==
  IF ts = <<>> THEN 0 ELSE ts[1].estimatedHours + SumDurations(Tail(ts))

\* The task ids of the days' tasks, concatenated in day order.
RECURSIVE ScheduledIds(_)
ScheduledIds(days) ==
  IF days = <<>> THEN <<>>
  ELSE [i \in 1..Len(days[1].tasks) |-> days[1].tasks[i].taskId]
         \o ScheduledIds(Tail(days))

\* The duration of the input task with the given id.
DurationOf(id) ==
  LET i == CHOOSE j \in 1..Len(tasks) : tasks[j].id = id
  IN tasks[i].estimatedHours

AllPositive == \A i \in 1..Len(tasks) : tasks[i].estimatedHours > 0

Oversized(task) == task.estimatedHours > workingHoursPerDay

\* The days emitted so far, and the days of the returned result.
EmittedDays ==
  { schedule[i] : i \in 1..Len(schedule) }
    \cup { result.dailySchedule[i] : i \in 1..Len(result.dailySchedule) }

\* The loop is at its fit check (the weekend branch is not taken).
AtFitCheck ==
  /\ pc = "loop"
  /\ taskIndex < Len(tasks)
  /\ ~(excludeWeekends /\ isWeekend(currentDate))

\* C1: with positive durations and a positive capacity the scheduling loop
\* terminates, also when a task is longer than the capacity: once the loop
\* is entered, taskIndex eventually reaches tasks.length.
C1_LoopTerminates ==
  (pc = "loop" /\ AllPositive /\ workingHoursPerDay > 0)
    ~> (taskIndex = Len(tasks))

\* C2: a task longer than the capacity that meets an empty accumulator is
\* accepted by that very iteration and becomes the sole task of the day, the
\* day's hours being the task's duration.
C2_OversizedAccepted ==
  [][ (AtFitCheck /\ currentDayTasks = <<>> /\ workingHoursPerDay > 0
         /\ Oversized(tasks[taskIndex + 1]))
      => /\ taskIndex' = taskIndex + 1
         /\ Len(currentDayTasks') = 1
         /\ currentDayTasks'[1].taskId = tasks[taskIndex + 1].id
         /\ currentDayHours' = tasks[taskIndex + 1].estimatedHours ]_vars

\* C3: every emitted day has totalHours <= workingHoursPerDay, unless it
\* holds exactly one task and that task is longer than workingHoursPerDay.
C3_CapacityInvariant ==
  \A day \in EmittedDays :
    \/ day.totalHours <= workingHoursPerDay
    \/ /\ Len(day.tasks) = 1
       /\ DurationOf(day.tasks[1].taskId) > workingHoursPerDay

\* A returned schedule with a day of two tasks that fills the capacity.
C3_Witness ==
  /\ result.returned
  /\ \E i \in 1..Len(result.dailySchedule) :
       /\ result.dailySchedule[i].totalHours = workingHoursPerDay
       /\ Len(result.dailySchedule[i].tasks) >= 2
       /\ \A k \in 1..Len(result.dailySchedule[i].tasks) :
            DurationOf(result.dailySchedule[i].tasks[k].taskId) > 0

\* C4: in a returned schedule every input task id appears exactly once
\* across the days' tasks, and no other id appears.
C4_Completeness ==
  result.returned =>
    LET ids == ScheduledIds(result.dailySchedule)
    IN /\ Len(ids) = Len(tasks)
       /\ \A j \in 1..Len(tasks) :
            Cardinality({k \in 1..Len(ids) : ids[k] = tasks[j].id}) = 1

\* A returned schedule of all MaxTasks tasks spread over two days or more.
C4_Witness ==
  /\ result.returned
  /\ Len(tasks) = MaxTasks
  /\ Len(result.dailySchedule) >= 2

\* C5: the task ids of the returned days, concatenated in day order, are the
\* input task ids in input order.
C5_OrderPreserved ==
  result.returned =>
    ScheduledIds(result.dailySchedule) = [j \in 1..Len(tasks) |-> tasks[j].id]

\* A returned schedule whose first day holds two tasks and is followed by
\* another day.
C5_Witness ==
  /\ result.returned
  /\ Len(result.dailySchedule) >= 2
  /\ Len(result.dailySchedule[1].tasks) >= 2

\* The weekday of a calendar date as written in the schedule, 0 = Sunday.
WeekdayOfDate(date) == date % 7

\* C6: with excludeWeekends no emitted day is dated a Saturday or a Sunday,
\* whatever the start date.
C6_NoWeekendDates ==
  excludeWeekends =>
    \A day \in EmittedDays : WeekdayOfDate(day.date) \notin {0, 6}

\* C7: no emitted day has an empty tasks list, and with positive durations
\* every emitted day has totalHours > 0.
C7_NonEmptyDays ==
  \A day \in EmittedDays :
    /\ Len(day.tasks) > 0
    /\ AllPositive => day.totalHours > 0

\* A returned schedule of positive tasks with two days or more.
C7_Witness ==
  /\ result.returned
  /\ AllPositive
  /\ Len(result.dailySchedule) >= 2

C9_EmptyListAllZero ==
  (result.returned /\ tasks = <<>>) =>
    /\ result.dailySchedule = <<>>
    /\ result.summary.totalTasks = 0
    /\ result.summary.totalHours = 0
    /\ result.summary.totalDays = 0
    /\ result.summary.averageHoursPerDay.kind = "num"
    /\ result.summary.averageHoursPerDay.num = 0

\* C10: with workingHoursPerDay <= 0 the call fails at once with
\* InvalidConfiguration: it never enters the loop and returns nothing (a call
\* that has no agent fails on that first).
C10_InvalidConfiguration ==
  (workingHoursPerDay <= 0 /\ pc # "start" /\ error # "Agent not found") =>
    /\ pc = "failed"
    /\ error = "InvalidConfiguration"
    /\ ~result.returned

\* C11: the dates of the emitted days are strictly increasing in emission
\* order, and the first emitted date is not before startDate.
C11_DatesIncreasing ==
  /\ \A i, j \in 1..Len(schedule) : i < j => schedule[i].date < schedule[j].date
  /\ \A i, j \in 1..Len(result.dailySchedule) :
       i < j => result.dailySchedule[i].date < result.dailySchedule[j].date
  /\ Len(schedule) > 0 => schedule[1].date >= startDate

\* A time of day as written by formatTime.
Clock(h1, h2, m1, m2) == <<h1, h2, ":", m1, m2>>

\* A day's tasks without their notes.
Slots(day) ==
  [k \in 1..Len(day.tasks) |->
     <<day.tasks[k].taskId, day.tasks[k].startTime, day.tasks[k].endTime>>]

\* The number x is h hours.
IsHours(x, h) == x.kind = "num" /\ x.num = Hours(h) * x.den

\* C12: the documented sample run (start on a Friday, capacity 8h, weekends
\* excluded, ranked order task1, task3, task4, task2, task5) gives exactly
\* two days: the Friday with task1 09:00-13:00, task4 13:00-14:00 and task5
\* 14:00-17:00 (8h), and the Monday after it with task3 09:00-15:00 and
\* task2 15:00-17:00 (8h); the summary is 5 tasks, 16 hours, 2 days, 8.0.
C12_SampleRun ==
  (/\ result.returned
   /\ tasks = SampleTasks /\ workingHoursPerDay = Hours(8)
   /\ startDate = Friday /\ excludeWeekends)
  => /\ Len(result.dailySchedule) = 2
     /\ result.dailySchedule[1].date = Friday
     /\ Slots(result.dailySchedule[1])
          = << <<1, Clock("0", "9", "0", "0"), Clock("1", "3", "0", "0")>>,
               <<4, Clock("1", "3", "0", "0"), Clock("1", "4", "0", "0")>>,
               <<5, Clock("1", "4", "0", "0"), Clock("1", "7", "0", "0")>> >>
     /\ result.dailySchedule[1].totalHours = Hours(8)
     /\ result.dailySchedule[2].date = Friday + 3
     /\ Slots(result.dailySchedule[2])
          = << <<3, Clock("0", "9", "0", "0"), Clock("1", "5", "0", "0")>>,
               <<2, Clock("1", "5", "0", "0"), Clock("1", "7", "0", "0")>> >>
     /\ result.dailySchedule[2].totalHours = Hours(8)
     /\ result.summary.totalTasks = 5
     /\ result.summary.totalHours = Hours(16)
     /\ result.summary.totalDays = 2
     /\ IsHours(result.summary.averageHoursPerDay, 8)

\* C13: three tasks of 4h, 2h, 6h, capacity 8h, a Monday start, weekends
\* excluded: exactly two days, tasks 1 and 2 on the first (6h), task 3 alone
\* on the second (6h); summary.totalHours = 12, averageHoursPerDay = 6.
C13_ThreeTasks ==
  (/\ result.returned
   /\ tasks = ThreeTasks /\ workingHoursPerDay = Hours(8)
   /\ startDate = Monday /\ excludeWeekends)
  => /\ Len(result.dailySchedule) = 2
     /\ ScheduledIds(<<result.dailySchedule[1]>>) = <<1, 2>>
     /\ result.dailySchedule[1].totalHours = Hours(6)
     /\ ScheduledIds(<<result.dailySchedule[2]>>) = <<3>>
     /\ result.dailySchedule[2].totalHours = Hours(6)
     /\ result.summary.totalHours = Hours(12)
     /\ IsHours(result.summary.averageHoursPerDay, 6)

\* The three-task example has returned.
C13_Witness ==
  /\ result.returned
  /\ tasks = ThreeTasks /\ workingHoursPerDay = Hours(8)
  /\ startDate = Monday /\ excludeWeekends
  /\ Len(result.dailySchedule) = 2

\* C14: five tasks of 2h, capacity 8h, a Friday start, weekends excluded:
\* the first four tasks are on that Friday (8h), the fifth on the Monday
\* after it, and no day is dated the Saturday or the Sunday in between.
C14_FiveTasks ==
  (/\ result.returned
   /\ tasks = FiveTasks /\ workingHoursPerDay = Hours(8)
   /\ startDate = Friday /\ excludeWeekends)
  => /\ Len(result.dailySchedule) = 2
     /\ result.dailySchedule[1].date = Friday
     /\ ScheduledIds(<<result.dailySchedule[1]>>) = <<1, 2, 3, 4>>
     /\ result.dailySchedule[1].totalHours = Hours(8)
     /\ result.dailySchedule[2].date = Friday + 3
     /\ ScheduledIds(<<result.dailySchedule[2]>>) = <<5>>

\* C15: no partial result.  A call that failed (no agent, or a stream that
\* failed once the days were computed) has returned nothing, and a call that
\* returned has not failed and returns every task with its summary.
C15_NoPartialResult ==
  /\ (pc = "failed" \/ error # "none") => result = NoResult
  /\ result.returned =>
       /\ pc = "done" /\ error = "none"
       /\ result.dailySchedule = schedule
       /\ Len(ScheduledIds(result.dailySchedule)) = Len(tasks)
       /\ result.summary.totalTasks = Len(tasks)

\* The stream failed after two days had been computed.
C15_Witness ==
  /\ pc = "failed"
  /\ error = "stream failed"
  /\ Len(schedule) >= 2
  /\ result = NoResult

\* The two calls have the same inputs.
SameInputs ==
  /\ other.tasks = tasks
  /\ other.workingHoursPerDay = workingHoursPerDay
  /\ other.startDate = startDate
  /\ other.excludeWeekends = excludeWeekends

\* C16: no state is kept between calls.  Of two calls with the same tasks,
\* workingHoursPerDay, startDate and excludeWeekends, run one after the
\* other or interleaved, the one that returned has the dailySchedule the
\* other has computed, and two that returned have the same dailySchedule
\* and summary.
C16_NoCrossCallState ==
  (result.returned /\ SameInputs) =>
    /\ other.pc \in {"stream", "done"} =>
         result.dailySchedule = other.schedule
    /\ other.result.returned =>
         /\ result.dailySchedule = other.result.dailySchedule
         /\ result.summary = other.result.summary

\* A call has returned two days while another call on the same inputs,
\* started before it returned, still awaits the agent.
C16_Witness ==
  /\ result.returned
  /\ SameInputs
  /\ other.pc = "stream"
  /\ Len(result.dailySchedule) >= 2
  /\ result.summary.totalHours > 0

\* C20: the agent's text has no effect on the schedule.  Two calls on the
\* same inputs that got different texts return the same dailySchedule and
\* summary; and the days are whole before the agent is called: while its
\* stream is awaited every task is in schedule, which is what is returned.
C20_TextHasNoEffect ==
  /\ (/\ result.returned /\ other.result.returned /\ SameInputs
      /\ result.suggestions # other.result.suggestions)
     => /\ result.dailySchedule = other.result.dailySchedule
        /\ result.summary = other.result.summary
  /\ pc = "stream" => Len(ScheduledIds(schedule)) = Len(tasks)
  /\ result.returned => result.dailySchedule = schedule

\* Two calls on the same inputs have returned with different suggestions.
C20_Witness ==
  /\ result.returned /\ other.result.returned /\ SameInputs
  /\ result.suggestions # other.result.suggestions
  /\ Len(result.dailySchedule) >= 2

\* C17: the list analyzeTasks returns is ordered by non-increasing aiPriority,
\* and tasks with equal aiPriority keep the order of the input (ids are given
\* in input order).
C17_SortedStable ==
  apc = "done" =>
    \A i, j \in 1..Len(prioritizedTasks) :
      i < j =>
        LET a == prioritizedTasks[i]
            b == prioritizedTasks[j]
        IN /\ a.aiPriority.kind = "num" /\ b.aiPriority.kind = "num"
           /\ a.aiPriority.num >= b.aiPriority.num
           /\ a.aiPriority.num = b.aiPriority.num => a.id < b.id

\* The text the agent gave for a task is unparseable, or an object whose
\* priority is a number or is left out.
NumericOrFallback(task) ==
  responseTexts[task.id].kind \in {"unparseable", "missing", "number"}

C19_EveryTaskOnce ==
  /\ Len(prioritizedTasks) = Len(responseTexts)
  /\ apc = "done" =>
       /\ Len(prioritizedTasks) = Len(inputTasks)
       /\ \A k \in 1..Len(inputTasks) :
            \E i \in 1..Len(prioritizedTasks) :
              /\ prioritizedTasks[i].id = inputTasks[k].id
              /\ prioritizedTasks[i].priority = inputTasks[k].priority
              /\ prioritizedTasks[i].deadline = inputTasks[k].deadline

\* Returned after a mix of parseable and unparseable responses.
C19_Witness ==
  /\ apc = "done"
  /\ \E i, j \in 1..Len(responseTexts) :
       /\ responseTexts[i].kind = "unparseable"
       /\ responseTexts[j].kind # "unparseable"

\* C21: the packing is greedy with no backtracking.  At the fit check the
\* task is placed exactly when currentDayHours + estimatedHours <=
\* workingHoursPerDay, and a task that does not fit closes the day and stays
\* the next to place; so of two consecutive emitted days the earlier one's
\* totalHours plus the duration of the later one's first task exceeds
\* workingHoursPerDay.
C21_GreedyNoBacktracking ==
  /\ [][ AtFitCheck =>
           LET d == tasks[taskIndex + 1].estimatedHours
           IN IF currentDayHours + d <= workingHoursPerDay
                THEN /\ taskIndex' = taskIndex + 1
                     /\ Len(currentDayTasks') = Len(currentDayTasks) + 1
                     /\ currentDayTasks'[Len(currentDayTasks')].taskId
                          = tasks[taskIndex + 1].id
                     /\ schedule' = schedule
                ELSE /\ taskIndex' = taskIndex
                     /\ currentDayTasks' = <<>>
                     /\ currentDayHours' = 0
                     /\ currentDayTasks # <<>> => Len(schedule') = Len(schedule) + 1 ]_vars
  /\ [](\A i \in 1..(Len(schedule) - 1) :
          schedule[i].totalHours + DurationOf(schedule[i + 1].tasks[1].taskId)
            > workingHoursPerDay)
  /\ []((pc = "loop" /\ schedule # <<>> /\ currentDayTasks # <<>>) =>
          schedule[Len(schedule)].totalHours + DurationOf(currentDayTasks[1].taskId)
            > workingHoursPerDay)

\* A returned schedule where a day was closed although a later task, of a
\* positive duration, would still have fitted in it.
C21_Witness ==
  /\ result.returned
  /\ \E i \in 1..(Len(result.dailySchedule) - 1) :
       \E j \in (i + 1)..Len(result.dailySchedule) :
         \E k \in 1..Len(result.dailySchedule[j].tasks) :
           LET d == DurationOf(result.dailySchedule[j].tasks[k].taskId)
           IN d > 0 /\ result.dailySchedule[i].totalHours + d <= workingHoursPerDay

\* Two decimal digits of a number below 100.
TwoDigits(v) == <<DigitChars[(v \div 10) + 1], DigitChars[(v % 10) + 1]>>

\* fmt(x): floor(9 + x) hours and round((x mod 1) * 60) minutes, two digits
\* each, for an offset x in units.
Fmt(x) ==
  TwoDigits(9 + (x \div UnitsPerHour))
    \o <<":">>
    \o TwoDigits((2 * (x % UnitsPerHour) * 60 + UnitsPerHour) \div (2 * UnitsPerHour))

\* The start offset of the k-th task of a day: the durations before it.
RECURSIVE OffsetOf(_, _)
OffsetOf(dayTasks, k) ==
  IF k <= 1 THEN 0
  ELSE OffsetOf(dayTasks, k - 1) + DurationOf(dayTasks[k - 1].taskId)

\* The minutes field of a time of day is 00..59.
MinutesInRange(time) ==
  /\ Len(time) = 5
  /\ time[4] \in {"0", "1", "2", "3", "4", "5"}

\* The tasks of a day are laid out back to back from 09:00.
BackToBack(dayTasks) ==
  /\ dayTasks # <<>> => dayTasks[1].startTime = <<"0", "9", ":", "0", "0">>
  /\ \A k \in 1..Len(dayTasks) :
       /\ k > 1 => dayTasks[k].startTime = dayTasks[k - 1].endTime
       /\ dayTasks[k].startTime = Fmt(OffsetOf(dayTasks, k))
       /\ dayTasks[k].endTime
            = Fmt(OffsetOf(dayTasks, k) + DurationOf(dayTasks[k].taskId))
       /\ MinutesInRange(dayTasks[k].startTime)
       /\ MinutesInRange(dayTasks[k].endTime)

\* C22: within every emitted day, and in the day being filled, the first
\* task starts at 09:00, each later task starts when the one before it ends,
\* and a task at offset h of duration d runs from fmt(h) to fmt(h + d), with
\* the minutes within 00..59.
C22_BackToBackTimes ==
  /\ \A day \in EmittedDays : BackToBack(day.tasks)
  /\ pc = "loop" => BackToBack(currentDayTasks)

\* A returned day of two tasks or more, the second starting on a half hour.
C22_Witness ==
  /\ result.returned
  /\ \E i \in 1..Len(result.dailySchedule) :
       /\ Len(result.dailySchedule[i].tasks) >= 2
       /\ result.dailySchedule[i].tasks[2].startTime[4] # "0"

\* The base and the boost of the fallback, as the rules state them.
RuleBase(priority) ==
  CASE priority = "urgent" -> 9
    [] priority = "high" -> 7
    [] priority = "medium" -> 5
    [] priority = "none" -> 5
    [] priority = "low" -> 3

RuleBoost(deadline) ==
  IF ~deadline.set THEN 0
  ELSE IF deadline.days <= 1 THEN 3
  ELSE IF deadline.days <= 7 THEN 2
  ELSE IF deadline.days <= 14 THEN 1
  ELSE 0

\* The tasks on the list whose priority came from the fallback.
FallbackTasks ==
  { prioritizedTasks[i] : i \in { k \in 1..Len(prioritizedTasks) :
        responseTexts[prioritizedTasks[k].id].kind = "unparseable" } }

\* C23: a task whose response cannot be parsed gets base + boost capped at
\* 10 (base 9, 7, 5, 3 for urgent, high, medium or none, low; boost 3, 2, 1 for
\* a deadline at most 1, 7, 14 days away, else 0); so of two such tasks with
\* the same deadline the one with the higher base never has the lower
\* aiPriority.
C23_FallbackPriority ==
  /\ \A t \in FallbackTasks :
       /\ t.aiPriority.kind = "num"
       /\ t.aiPriority.num
            = (IF RuleBase(t.priority) + RuleBoost(t.deadline) > 10 THEN 10
               ELSE RuleBase(t.priority) + RuleBoost(t.deadline))
  /\ \A t, u \in FallbackTasks :
       (t.deadline = u.deadline /\ RuleBase(t.priority) >= RuleBase(u.priority))
         => t.aiPriority.num >= u.aiPriority.num

\* Returned: two fallback tasks due in exactly 7 days, one urgent (capped
\* at 10) and one low.
C23_Witness ==
  /\ apc = "done"
  /\ \E t, u \in FallbackTasks :
       /\ t.deadline = DueIn(7) /\ u.deadline = DueIn(7)
       /\ t.priority = "urgent" /\ u.priority = "low"
       /\ t.aiPriority.num = 10 /\ u.aiPriority.num = 5

\* C24: in the CircuitBreaker, the fifth failure in a row (failures counts
\* the failures since the last success) leaves the state open; while open and
\* no more than 60000 ms after the last failure no operation is invoked and a
\* call is rejected with "Circuit breaker is open"; a success sets failures to
\* 0 and the state to closed; a failure in half-open sets the state to open.
C24_CircuitBreaker ==
  [][ /\ (failures' = failures + 1 /\ failures' >= 5) => state' = "open"
      /\ (state = "open" /\ now - lastFailureTime <= 60000) =>
           /\ pending' <= pending
           /\ (pending' = pending /\ now' = now) =>
                /\ thrown' = "Circuit breaker is open"
                /\ state' = "open"
                /\ failures' = failures
      /\ (pending' < pending /\ thrown' = "none") =>
           (failures' = 0 /\ state' = "closed")
      /\ (state = "half-open" /\ failures' = failures + 1) => state' = "open"
    ]_vars

\* The breaker is open again after a failed probe, and has rejected a call.
C24_Witness ==
  /\ state = "open"
  /\ failures > 5
  /\ pending = 0
  /\ thrown = "Circuit breaker is open"
  /\ now - lastFailureTime = 60000

\* C25: retryableStep invokes the operation at most 3 times, returns the
\* first successful result without a further attempt, throws "Operation
\* failed after 3 attempts" only after 3 failed attempts, and has waited
\* 1000, 2000 and 4000 ms after the first, second and third failed attempt.
C25_RetryBackoff ==
  /\ invocations <= 3
  /\ rpc = "returned" => (invocations = attempt + 1 /\ returned \in Values)
  /\ rpc = "failed" =>
       /\ invocations = 3
       /\ thrown = "Operation failed after 3 attempts"
  /\ rpc \in {"waiting", "failed"} =>
       waits = SubSeq(<<1000, 2000, 4000>>, 1, invocations)

\* The loop is at its weekend check and takes the weekend branch.
AtWeekend ==
  /\ pc = "loop"
  /\ taskIndex < Len(tasks)
  /\ excludeWeekends /\ isWeekend(currentDate)

\* C26: with excludeWeekends, whenever the loop is at its weekend check a
\* non-empty accumulator implies that the current date is no weekend; the
\* weekend step only advances the date: it consumes no task and emits no day.
C26_WeekendFlushUnreachable ==
  /\ []((pc = "loop" /\ excludeWeekends /\ currentDayTasks # <<>>)
          => ~isWeekend(currentDate))
  /\ [][ AtWeekend =>
           /\ currentDate' # currentDate
           /\ taskIndex' = taskIndex
           /\ schedule' = schedule
           /\ currentDayTasks' = currentDayTasks
           /\ currentDayHours' = currentDayHours ]_vars

\* The loop meets a weekend after it has closed a day, a task still to place.
C26_Witness ==
  /\ AtWeekend
  /\ schedule # <<>>
  /\ taskIndex > 0

\* No task is longer than the capacity.
NoOversized == \A i \in 1..Len(tasks) : ~Oversized(tasks[i])

\* The first calendar day from the given one on that is not excluded.
FirstWorkingDay(date) ==
  IF excludeWeekends /\ WeekdayOfDate(date) = 6 THEN date + 2
  ELSE IF excludeWeekends /\ WeekdayOfDate(date) = 0 THEN date + 1
  ELSE date

\* The days follow one another with no working day left out.
NoIdleDay(days) ==
  /\ days # <<>> => days[1].date = FirstWorkingDay(startDate)
  /\ \A i \in 1..(Len(days) - 1) :
       days[i + 1].date = FirstWorkingDay(days[i].date + 1)

\* C27: when no task is longer than workingHoursPerDay, the first emitted day
\* is the first non-excluded calendar day on or after startDate and every
\* later one is the next non-excluded calendar day after the one before it.
C27_NoIdleDay ==
  NoOversized => (NoIdleDay(schedule) /\ NoIdleDay(result.dailySchedule))

\* The durations of the first n tasks.
SumFirst(n) == SumDurations(SubSeq(tasks, 1, n))

\* The durations of the tasks of an accumulator.
RECURSIVE SumPlaced(_)
SumPlaced(dayTasks) ==
  IF dayTasks = <<>> THEN 0
  ELSE DurationOf(dayTasks[1].taskId) + SumPlaced(Tail(dayTasks))

RECURSIVE SumAmounts(_)
SumAmounts(entries) ==
  IF entries = <<>> THEN 0 ELSE entries[1].amount + SumAmounts(Tail(entries))

\* The absolute values of the numeric negative amounts of the data lines.
RECURSIVE SpentInRows(_)
SpentInRows(rows) ==
  IF rows = <<>> THEN 0
  ELSE (IF rows[1].amount.kind = "number" /\ rows[1].amount.n < 0
          THEN 0 - rows[1].amount.n ELSE 0)
       + SpentInRows(Tail(rows))

\* C29: in every result of analyzeTransactions totalSpending is the sum of
\* the categoryBreakdown values and the sum of the monthlyTrend amounts; it
\* counts exactly the rows with a negative amount, by absolute value; and
\* topMerchants has at most 5 entries in non-increasing order of amount.
C29_TotalsConsistent ==
  analysisData.returned =>
    /\ analysisData.totalSpending = SumAmounts(analysisData.categoryBreakdown)
    /\ analysisData.totalSpending = SumAmounts(analysisData.monthlyTrend)
    /\ analysisData.totalSpending = SpentInRows(csvData.rows)
    /\ Len(analysisData.topMerchants) <= 5
    /\ \A i \in 1..(Len(analysisData.topMerchants) - 1) :
         analysisData.topMerchants[i].amount >= analysisData.topMerchants[i + 1].amount

\* C30: generateReport does not fail on any analysis that analyzeTransactions
\* returns, one without a spending row included: the report step ends with
\* a report and never with the TypeError.
C30_ReportNeverFails ==
  /\ ~(fpc = "failed" /\ ferror = "TypeError")
  /\ fpc = "done" => report.returned

====
